---------------------------- MODULE Spec2Model ----------------------------
(***************************************************************************)
(* A model of AudioRecorder (src/lib/audio/audio-recorder.js): the capture *)
(* session's flags and buffer, the device acquisition started by           *)
(* startListening, the chunk and display-frame callbacks installed by      *)
(* attachUserMediaStream, the silence trimming of stop() and the teardown  *)
(* of dispose().                                                           *)
(*                                                                         *)
(* JavaScript runs one callback at a time: the platform events (the        *)
(* acquisition results, onaudioprocess, the animation frame) are taken     *)
(* only between callbacks (pc = "idle").  The one place where the class    *)
(* hands control to its caller in the middle of a handler is the call      *)
(* onStarted() of line 26, between `started = true` and                    *)
(* attachUserMediaStream: there (pc = "notifying") the caller's code may   *)
(* re-enter any public method before the handler goes on.                  *)
(***************************************************************************)
EXTENDS Integers, Sequences, FiniteSets, TLC

(***************************************************************************)
(* Bounds of the model.                                                    *)
(***************************************************************************)
\* startListening() calls made on one session
MaxListen == 2
\* chunks retained by a session of the life-cycle specification
MaxChunks == 2
\* runs of the teardown block of dispose() on one session
MaxTeardowns == 2
\* samples per chunk (the code's bufferLength is 1024, scaled down here)
ChunkLen == 2
\* the captures handed to stop() in the trimming specification: chunks that
\* are silent or loud, chunks of three amplitudes, chunks of unequal samples
MaxTrimChunks == 10
MaxGradedChunks == 5
MaxMixedChunks == 2

(***************************************************************************)
(* Sample values.  Samples are Float32 numbers; the model uses integral    *)
(* ones (exactly representable, so that copying into a Float32Array keeps  *)
(* them).  65 is more than 64 times 1: a chunk of amplitude 1 is below the *)
(* threshold maxRMS / 8 of a capture that holds a chunk of amplitude 65.   *)
(***************************************************************************)
Amplitude == {0, 1, 65}

\* this.bufferLength = 1024
bufferLength == ChunkLen

\* new SharedAudioContext(): the singleton context; only sampleRate is read
audioContext == [sampleRate |-> 44100]

\* the chunks of uniform amplitude
UniformChunk == {[i \in 1..bufferLength |-> a] : a \in Amplitude}

\* the chunks of unequal samples
MixedChunk == [1..bufferLength -> {0, 1}]

\* the chunks the driver delivers in the life-cycle specification: silence
\* and a signal
DriverChunk == {[i \in 1..bufferLength |-> a] : a \in {0, 1}}

(***************************************************************************)
(* Arithmetic.  JavaScript numbers are modelled exactly: a quotient a / b  *)
(* is the pair [num |-> a, den |-> b] with den >= 0 (den = 0 is            *)
(* +-Infinity, or NaN when num = 0 too) and is never rounded.              *)
(***************************************************************************)
RECURSIVE GCD(_, _)
GCD(a, b) == IF b = 0 THEN a ELSE GCD(b, a % b)

Abs(x) == IF x < 0 THEN -x ELSE x

\* a / b of two integers, b >= 0
Quot(a, b) == [num |-> a, den |-> b]

\* p > q for two quotients; common factors are cancelled before the cross
\* multiplication to keep the products small
Greater(p, q) ==
    LET g == GCD(p.den, q.den)
        h == GCD(Abs(p.num), Abs(q.num))
        gd == IF g = 0 THEN 1 ELSE g
        hd == IF h = 0 THEN 1 ELSE h
    IN  (p.num \div hd) * (q.den \div gd) > (q.num \div hd) * (p.den \div gd)

\* p = q for two finite quotients
Same(p, q) == p.den > 0 /\ q.den > 0 /\ p.num * q.den = q.num * p.den

\* 0 <= p <= 1 for a quotient
InUnitInterval(p) == p.den > 0 /\ 0 <= p.num /\ p.num <= p.den

Max2(a, b) == IF a > b THEN a ELSE b

Min2(a, b) == IF a < b THEN a ELSE b

(***************************************************************************)
(* calculateRMS (lines 45-54) returns sqrt(sqrt(sum / n) / 0.35), which is *)
(* irrational in general.  The model keeps the fourth power of that        *)
(* number, (sum / n) / 0.35^2 = 10000 * sum / (1225 * n) = 400 * sum /     *)
(* (49 * n), which is rational: x |-> x^4 is strictly increasing on the    *)
(* non-negative numbers, so every comparison of two levels is the          *)
(* comparison of their fourth powers.                                      *)
(***************************************************************************)
RECURSIVE SumSquares(_)
SumSquares(samples) ==
    IF samples = << >> THEN 0
    ELSE Head(samples) * Head(samples) + SumSquares(Tail(samples))

calculateRMS(samples) == Quot(400 * SumSquares(samples), 49 * Len(samples))

\* Math.max.apply(null, levels): -Infinity for no argument
NegInfinity == Quot(-1, 0)

RECURSIVE MathMax(_)
MathMax(levels) ==
    IF levels = << >> THEN NegInfinity
    ELSE LET rest == MathMax(Tail(levels))
         IN  IF Greater(Head(levels), rest) THEN Head(levels) ELSE rest

\* level / 8, on fourth powers: 8^4 = 4096
DivideBy8(level) == Quot(level.num, level.den * 4096)

(***************************************************************************)
(* stop(), lines 91-124.                                                   *)
(***************************************************************************)
\* JavaScript's null, as the loop variables hold it: no chunk index (they
\* are 1-based) equals it
null == -1

\* null - 2 and null + 2 take null as the number 0
ToNumber(v) == IF v = null THEN 0 ELSE v

chunkLevels(bufs) == [i \in 1..Len(bufs) |-> calculateRMS(bufs[i])]

maxRMS(levels) == MathMax(levels)

threshold(levels) == DivideBy8(maxRMS(levels))

\* line 99 with >= for >
AtOrAboveThreshold(levels, limit, i) == ~Greater(limit, levels[i + 1])

\* line 99: chunkLevels[i] > threshold, for the 0-based i of the loop
AboveThreshold(levels, limit, i) == Greater(levels[i + 1], limit)

\* the loop of lines 98-103 recording the loop's own 0-based i for i + 1
RECURSIVE ScanChunksZeroBased(_, _, _, _, _)
ScanChunksZeroBased(levels, limit, i, first, last) ==
    IF ~(i < Len(levels)) THEN [first |-> first, last |-> last]
    ELSE IF AboveThreshold(levels, limit, i)
         THEN ScanChunksZeroBased(levels, limit, i + 1,
                                  IF first = null THEN i ELSE first, i)
         ELSE ScanChunksZeroBased(levels, limit, i + 1, first, last)

\* the loop of lines 98-103 without the test of line 100
RECURSIVE ScanChunksFirstOverwritten(_, _, _, _, _)
ScanChunksFirstOverwritten(levels, limit, i, first, last) ==
    IF ~(i < Len(levels)) THEN [first |-> first, last |-> last]
    ELSE IF AboveThreshold(levels, limit, i)
         THEN ScanChunksFirstOverwritten(levels, limit, i + 1, i + 1, i + 1)
         ELSE ScanChunksFirstOverwritten(levels, limit, i + 1, first, last)

\* the loop of lines 98-103 from index i on, with the two variables as they
\* are before iteration i
RECURSIVE ScanChunks(_, _, _, _, _)
ScanChunks(levels, limit, i, first, last) ==
    IF ~(i < Len(levels)) THEN [first |-> first, last |-> last]
    ELSE IF AboveThreshold(levels, limit, i)
         THEN ScanChunks(levels, limit, i + 1,
                         IF first = null THEN i + 1 ELSE first, i + 1)
         ELSE ScanChunks(levels, limit, i + 1, first, last)

\* lines 92-103: the two loop variables when the loop ends
Scan(bufs) ==
    LET levels == chunkLevels(bufs)
        limit == threshold(levels)
    IN  ScanChunks(levels, limit, 0, null, null)

firstChunkAboveThreshold(bufs) == Scan(bufs).first

lastChunkAboveThreshold(bufs) == Scan(bufs).last

\* line 105 without the Math.max
trimStartUnclamped(first, total) == Quot(ToNumber(first) - 2, total)

\* line 105
trimStart(first, total) == Quot(Max2(2, ToNumber(first) - 2), total)

\* line 106 without the Math.min
trimEndUnclamped(last, total) == Quot(ToNumber(last) + 2, total)

\* line 106
trimEnd(last, total) == Quot(Min2(total - 2, ToNumber(last) + 2), total)

\* new Float32Array(n): n zeros
Float32Zeros(n) == [i \in 1..n |-> 0]

\* new Float32Array(typedArray): a copy of the values
Float32Copy(chunk) == [i \in 1..Len(chunk) |-> chunk[i]]

\* buffer.set(bufferChunk, offset)
TypedArraySet(buffer, bufferChunk, offset) ==
    [j \in 1..Len(buffer) |->
        IF j > offset /\ j <= offset + Len(bufferChunk)
        THEN bufferChunk[j - offset] ELSE buffer[j]]

\* the loop of lines 110-115 with offset advanced by one per chunk
RECURSIVE ConcatenateByOne(_, _, _, _)
ConcatenateByOne(bufs, i, offset, buffer) ==
    IF ~(i < Len(bufs)) THEN buffer
    ELSE ConcatenateByOne(bufs, i + 1, offset + 1,
                          TypedArraySet(buffer, bufs[i + 1], offset))

\* the loop of lines 110-115 from index i on
RECURSIVE Concatenate(_, _, _, _)
Concatenate(bufs, i, offset, buffer) ==
    IF ~(i < Len(bufs)) THEN buffer
    ELSE Concatenate(bufs, i + 1, offset + Len(bufs[i + 1]),
                     TypedArraySet(buffer, bufs[i + 1], offset))

\* lines 108-115: the flat buffer
Samples(bufs) ==
    Concatenate(bufs, 0, 0, Float32Zeros(Len(bufs) * bufferLength))

\* stop() for this.buffers = bufs: the value it returns (lines 117-123),
\* with the two loop variables it ends with
TrimResult(bufs) ==
    LET scan == Scan(bufs)
    IN  [levels |-> chunkLevels(bufs),
         samples |-> Samples(bufs),
         sampleRate |-> audioContext.sampleRate,
         trimStart |-> trimStart(scan.first, Len(bufs)),
         trimEnd |-> trimEnd(scan.last, Len(bufs)),
         firstChunkAboveThreshold |-> scan.first,
         lastChunkAboveThreshold |-> scan.last]

(***************************************************************************)
(* The session.                                                            *)
(***************************************************************************)
VARIABLES
    started,          \* this.started
    recording,        \* this.recording
    disposed,         \* this.disposed
    buffers,          \* this.buffers
    storage,          \* for each element of buffers: null when it has its
                      \* own samples, or the stream whose input buffer it is
    userMediaStream,  \* this.userMediaStream: null, or the stream attached
    acquisition,      \* each getUserMedia request of this session
    track,            \* each stream's audio track
    connected,        \* each stream's processing graph is wired up
    onaudioprocess,   \* each stream's script processor has the handler
    frameRequested,   \* each stream's update() is requested for a frame
    pc,               \* "idle", or "notifying" inside onStarted()
    listens,          \* startListening() calls so far
    calls,            \* invocations of onStarted and of onError so far
    notified,         \* the callback the last step invoked, or "none"
    delivered,        \* the chunks delivered since recording is true
    thrown,           \* the last dispose() raised an error
    teardowns,        \* runs of the block of lines 128-133 so far
    returned          \* << >>, or the value of the last stop() and its loop

session == <<started, recording, disposed, buffers, userMediaStream>>
platform == <<acquisition, track, connected, onaudioprocess, frameRequested>>
control == <<pc, listens>>
observed == <<calls, notified, delivered, thrown, teardowns, returned>>
vars == <<session, storage, platform, control, observed>>

Stream == 1..MaxListen

\* the four nodes are created and assigned together with userMediaStream in
\* attachUserMediaStream (lines 57-60, 68): each is null exactly when it is
scriptProcessorNode == userMediaStream
analyserNode == userMediaStream
sourceNode == userMediaStream
mediaStreamSource == userMediaStream

\* the constructor, lines 4-19
Init ==
    /\ started = FALSE
    /\ recording = FALSE
    /\ disposed = FALSE
    /\ buffers = << >>
    /\ storage = << >>
    /\ userMediaStream = null
    /\ acquisition = [i \in Stream |-> "none"]
    /\ track = [i \in Stream |-> "none"]
    /\ connected = [i \in Stream |-> FALSE]
    /\ onaudioprocess = [i \in Stream |-> FALSE]
    /\ frameRequested = [i \in Stream |-> FALSE]
    /\ pc = "idle"
    /\ listens = 0
    /\ calls = [onStarted |-> 0, onError |-> 0]
    /\ notified = "none"
    /\ delivered = << >>
    /\ thrown = FALSE
    /\ teardowns = 0
    /\ returned = << >>

\* a notification that invokes both onStarted and onError
InvokeBoth(cb) ==
    [onStarted |-> calls.onStarted + 1, onError |-> calls.onError + 1]

\* one more invocation of the callback cb
Invoke(cb) == [calls EXCEPT ![cb] = @ + 1]

\* the stream whose onStarted() is running
Notifying == CHOOSE i \in Stream : acquisition[i] = "notifying"

\* the guard of lines 24, 30 and 35, left out
NotDisposedUnchecked == TRUE

\* the guard of lines 24, 30 and 35
NotDisposed == ~disposed

\* startListening, lines 21-39: getUserMedia either takes the request or
\* throws (the catch of line 34)
startListening(throws) ==
    /\ UNCHANGED storage
    /\ listens < MaxListen
    /\ listens' = listens + 1
    /\ IF throws
       THEN /\ acquisition' = [acquisition EXCEPT ![listens + 1] =
                                 IF NotDisposed THEN "failed" ELSE "suppressed"]
            /\ calls' = IF NotDisposed THEN Invoke("onError") ELSE calls
            /\ notified' = IF NotDisposed THEN "onError" ELSE "none"
       ELSE /\ acquisition' = [acquisition EXCEPT ![listens + 1] = "pending"]
            /\ calls' = calls
            /\ notified' = "none"
    /\ UNCHANGED <<session, track, connected, onaudioprocess, frameRequested,
                   pc, delivered, thrown, teardowns, returned>>

\* the success callback without the call of line 26
onSuccessWithoutOnStarted(i) ==
    /\ UNCHANGED storage
    /\ pc = "idle"
    /\ acquisition[i] = "pending"
    /\ track' = [track EXCEPT ![i] = "live"]
    /\ IF NotDisposed
       THEN /\ started' = TRUE
            /\ acquisition' = [acquisition EXCEPT ![i] = "notifying"]
            /\ pc' = "notifying"
       ELSE /\ acquisition' = [acquisition EXCEPT ![i] = "suppressed"]
            /\ UNCHANGED <<started, pc>>
    /\ notified' = "none"
    /\ UNCHANGED <<recording, disposed, buffers, userMediaStream, connected,
                   onaudioprocess, frameRequested, listens, calls, delivered,
                   thrown, teardowns, returned>>

\* the success callback, lines 23-26, up to the call of onStarted; the
\* platform hands it a stream whose track is live
onSuccess(i) ==
    /\ UNCHANGED storage
    /\ pc = "idle"
    /\ acquisition[i] = "pending"
    /\ track' = [track EXCEPT ![i] = "live"]
    /\ IF NotDisposed
       THEN /\ started' = TRUE
            /\ calls' = Invoke("onStarted")
            /\ notified' = "onStarted"
            /\ acquisition' = [acquisition EXCEPT ![i] = "notifying"]
            /\ pc' = "notifying"
       ELSE /\ acquisition' = [acquisition EXCEPT ![i] = "suppressed"]
            /\ notified' = "none"
            /\ UNCHANGED <<started, calls, pc>>
    /\ UNCHANGED <<recording, disposed, buffers, userMediaStream, connected,
                   onaudioprocess, frameRequested, listens, delivered,
                   thrown, teardowns, returned>>

\* the failure callback, lines 29-33
onFailure(i) ==
    /\ UNCHANGED storage
    /\ pc = "idle"
    /\ acquisition[i] = "pending"
    /\ IF NotDisposed
       THEN /\ calls' = Invoke("onError")
            /\ notified' = "onError"
            /\ acquisition' = [acquisition EXCEPT ![i] = "failed"]
       ELSE /\ calls' = calls
            /\ notified' = "none"
            /\ acquisition' = [acquisition EXCEPT ![i] = "suppressed"]
    /\ UNCHANGED <<session, track, connected, onaudioprocess, frameRequested,
                   control, delivered, thrown, teardowns, returned>>

\* onStarted() returns and line 27 runs: attachUserMediaStream, lines 56-89
attachUserMediaStream ==
    /\ UNCHANGED storage
    /\ pc = "notifying"
    /\ LET i == Notifying
       IN  /\ userMediaStream' = i
           /\ onaudioprocess' = [onaudioprocess EXCEPT ![i] = TRUE]
           /\ frameRequested' = [frameRequested EXCEPT ![i] = TRUE]
           /\ connected' = [connected EXCEPT ![i] = TRUE]
           /\ acquisition' = [acquisition EXCEPT ![i] = "attached"]
    /\ pc' = "idle"
    /\ notified' = "none"
    /\ UNCHANGED <<started, recording, disposed, buffers, track, listens,
                   calls, delivered, thrown, teardowns, returned>>

\* startRecording, lines 41-43
startRecording ==
    /\ UNCHANGED storage
    /\ recording' = TRUE
    /\ notified' = "none"
    /\ UNCHANGED <<started, disposed, buffers, userMediaStream, platform,
                   control, calls, delivered, thrown, teardowns, returned>>

\* the guard of line 63 without this.recording
RetainsWhileListening == ~disposed

\* the guard of line 63
Retains == recording /\ ~disposed

\* line 64 with unshift for push
PushFront(bufs, chunk) == <<Float32Copy(chunk)>> \o bufs

\* line 64: this.buffers.push(new Float32Array(chunk))
Push(bufs, chunk) == Append(bufs, Float32Copy(chunk))

\* line 64 retaining the array getChannelData(0) returns, without a copy
ChunkStorageOfDriver(i) == i

\* line 64: new Float32Array(typedArray) allocates the samples it holds
ChunkStorage(i) == null

\* the driver fills stream i's input buffer with the next chunk before it
\* calls the handler: every retained element that is that buffer reads the
\* new samples
DriverWrites(bufs, i, chunk) ==
    [k \in 1..Len(bufs) |-> IF storage[k] = i THEN chunk ELSE bufs[k]]

\* the handler of lines 62-66, called by stream i's script processor with
\* the chunk its input buffer holds
audioprocess(i, chunk) ==
    /\ pc = "idle"
    /\ onaudioprocess[i]
    /\ connected[i]
    /\ recording => Len(delivered) < MaxChunks
    /\ buffers' = IF Retains
                  THEN Push(DriverWrites(buffers, i, chunk), chunk)
                  ELSE DriverWrites(buffers, i, chunk)
    /\ storage' = IF Retains THEN Append(storage, ChunkStorage(i)) ELSE storage
    /\ delivered' = IF recording THEN Append(delivered, chunk) ELSE delivered
    /\ notified' = "none"
    /\ UNCHANGED <<started, recording, disposed, userMediaStream, platform,
                   control, calls, thrown, teardowns, returned>>

\* line 76 left out
UpdateNeverReturns == FALSE

\* line 76 stopping the loop also while nothing is recorded
UpdateReturnsUnlessRecording == disposed \/ ~recording

\* line 76
UpdateReturns == disposed

\* update, lines 75-80, called for the frame stream i's loop requested; the
\* value it passes to onUpdate is not kept
update(i) ==
    /\ UNCHANGED storage
    /\ pc = "idle"
    /\ frameRequested[i]
    /\ IF UpdateReturns
       THEN /\ frameRequested' = [frameRequested EXCEPT ![i] = FALSE]
            /\ notified' = "none"
       ELSE /\ frameRequested' = [frameRequested EXCEPT ![i] = TRUE]
            /\ notified' = "onUpdate"
    /\ UNCHANGED <<session, acquisition, track, connected, onaudioprocess,
                   control, calls, delivered, thrown, teardowns, returned>>

\* stop that also ends the recording
stopEndsRecording ==
    /\ UNCHANGED storage
    /\ returned' = <<TrimResult(buffers)>>
    /\ notified' = "none"
    /\ recording' = FALSE
    /\ UNCHANGED <<started, disposed, buffers, userMediaStream, platform,
                   control, calls, delivered, thrown, teardowns>>

\* stop, lines 91-124
stop ==
    /\ UNCHANGED storage
    /\ returned' = <<TrimResult(buffers)>>
    /\ notified' = "none"
    /\ UNCHANGED <<session, platform, control, calls, delivered, thrown,
                   teardowns>>

\* line 127
TearsDown == started

\* lines 128-133 with a disconnect that rejects a node that has no connection
TearDownRaisesWhenDisconnected ==
    scriptProcessorNode = null \/ ~connected[scriptProcessorNode]

\* line 128 assigns a property of this.scriptProcessorNode: a TypeError when
\* that is still null
TearDownRaises == scriptProcessorNode = null

\* dispose, lines 126-136.  When it raises inside onStarted(), the caller's
\* code either catches the error there or lets it leave the success
\* callback, and then line 27 never runs.
dispose(caught) ==
    /\ UNCHANGED storage
    /\ IF TearsDown /\ TearDownRaises
       THEN /\ thrown' = TRUE
            /\ IF pc = "notifying" /\ ~caught
               THEN /\ pc' = "idle"
                    /\ acquisition' =
                         [acquisition EXCEPT ![Notifying] = "abandoned"]
               ELSE UNCHANGED <<pc, acquisition>>
            /\ UNCHANGED <<disposed, track, connected, onaudioprocess,
                           teardowns>>
       ELSE /\ thrown' = FALSE
            /\ IF TearsDown
               THEN /\ teardowns < MaxTeardowns
                    /\ teardowns' = teardowns + 1
                    /\ onaudioprocess' =
                         [onaudioprocess EXCEPT ![scriptProcessorNode] = FALSE]
                    /\ connected' = [connected EXCEPT ![sourceNode] = FALSE]
                    /\ track' = [track EXCEPT ![userMediaStream] = "stopped"]
               ELSE UNCHANGED <<onaudioprocess, connected, track, teardowns>>
            /\ disposed' = TRUE
            /\ UNCHANGED <<pc, acquisition>>
    /\ notified' = "none"
    /\ UNCHANGED <<started, recording, buffers, userMediaStream,
                   frameRequested, listens, calls, delivered, returned>>

Next ==
    \/ \E throws \in BOOLEAN : startListening(throws)
    \/ \E i \in Stream : onSuccess(i)
    \/ \E i \in Stream : onFailure(i)
    \/ attachUserMediaStream
    \/ startRecording
    \/ \E i \in Stream, chunk \in DriverChunk : audioprocess(i, chunk)
    \/ \E i \in Stream : update(i)
    \/ stop
    \/ \E caught \in BOOLEAN : dispose(caught)

Spec == Init /\ [][Next]_vars

(***************************************************************************)
(* The trimming specification: stop() on a recording session, for every    *)
(* capture of the bounded families below.  Each such session is one the    *)
(* life-cycle reaches by startListening, a successful acquisition,         *)
(* startRecording and one audioprocess event per chunk.                    *)
(***************************************************************************)
\* the captures stop() is applied to
Capture ==
    UNION {[1..n -> DriverChunk] : n \in 1..MaxTrimChunks}
    \cup UNION {[1..n -> UniformChunk] : n \in 1..MaxGradedChunks}
    \cup UNION {[1..n -> MixedChunk] : n \in 1..MaxMixedChunks}

InitStop ==
    /\ buffers \in Capture
    /\ storage = [k \in 1..Len(buffers) |-> null]
    /\ delivered = buffers
    /\ started = TRUE
    /\ recording = TRUE
    /\ disposed = FALSE
    /\ userMediaStream = 1
    /\ acquisition = [i \in Stream |-> IF i = 1 THEN "attached" ELSE "none"]
    /\ track = [i \in Stream |-> IF i = 1 THEN "live" ELSE "none"]
    /\ connected = [i \in Stream |-> i = 1]
    /\ onaudioprocess = [i \in Stream |-> i = 1]
    /\ frameRequested = [i \in Stream |-> i = 1]
    /\ pc = "idle"
    /\ listens = 1
    /\ calls = [onStarted |-> 1, onError |-> 0]
    /\ notified = "none"
    /\ thrown = FALSE
    /\ teardowns = 0
    /\ returned = << >>

NextStop == stop

SpecStop == InitStop /\ [][NextStop]_vars

(***************************************************************************)
(* Properties of the life-cycle (checked under Spec).                      *)
(***************************************************************************)
\* a step that is the arrival of acquisition i's result
Resolves(i) == onSuccess(i) \/ onFailure(i)

\* a step that is a chunk callback
ChunkCallback == \E i \in Stream, chunk \in DriverChunk : audioprocess(i, chunk)

\* a step that is a call of dispose()
DisposeCall == \E caught \in BOOLEAN : dispose(caught)

\* C1: when the session is disposed while an acquisition is pending, the
\* result that arrives later is suppressed: a late success invokes no
\* onStarted, leaves started as it is and neither attaches the stream nor
\* starts the chunk and loudness callbacks; a late failure invokes no
\* onError; and a stream suppressed this way is never attached afterwards.
C1_LateResultSuppressed ==
    /\ [][\A i \in Stream :
            (disposed /\ acquisition[i] = "pending" /\ Resolves(i)) =>
                /\ calls' = calls
                /\ notified' = "none"
                /\ started' = started
                /\ userMediaStream' = userMediaStream
                /\ onaudioprocess' = onaudioprocess
                /\ frameRequested' = frameRequested
                /\ connected' = connected
                /\ pc' = "idle"]_vars
    /\ [](\A i \in Stream :
            acquisition[i] = "suppressed" =>
                /\ userMediaStream # i
                /\ ~onaudioprocess[i]
                /\ ~frameRequested[i]
                /\ ~connected[i])

\* C1, its case: a success arrived for a session that was disposed, before
\* being started, while that acquisition was pending
C1_Witness ==
    /\ disposed
    /\ ~started
    /\ \E i \in Stream : acquisition[i] = "suppressed" /\ track[i] = "live"
    /\ calls.onStarted = 0

\* C2: once dispose() has completed, no later step extends buffers or
\* invokes onStarted, onUpdate or onError, and a frame tick of the loudness
\* loop does not request another frame.
C2_DisposedIsSilent ==
    [][disposed =>
        /\ buffers' = buffers
        /\ calls' = calls
        /\ notified' = "none"
        /\ \A i \in Stream : update(i) => ~frameRequested'[i]]_vars

\* C2, its case: after dispose() a chunk callback has fired (of a graph the
\* session no longer references) and every frame tick has returned
C2_Witness ==
    /\ disposed
    /\ Len(delivered) > Len(buffers)
    /\ \E i \in Stream : acquisition[i] = "attached"
    /\ \A i \in Stream : ~frameRequested[i]

\* C3: dispose() is safe in every reachable state: each call completes
\* without raising an error and leaves disposed = TRUE.
C3_DisposeIsSafe == [][DisposeCall => (~thrown' /\ disposed')]_vars

\* C4 as stated: a second dispose() raises no error, performs no teardown
\* action and leaves the state as the first call left it.
C4_SecondDisposeDoesNothing ==
    [][(disposed /\ DisposeCall) =>
        /\ ~thrown'
        /\ teardowns' = teardowns
        /\ UNCHANGED <<session, platform>>]_vars

\* C4 as amended: a second dispose() raises no error and leaves every field
\* of the session unchanged; it runs the teardown block again exactly when
\* started is true, and that run changes nothing of a graph that is already
\* disconnected with its track stopped.
C4_SecondDisposeKeepsSession ==
    [][(disposed /\ DisposeCall) =>
        /\ ~thrown'
        /\ UNCHANGED session
        /\ teardowns' = IF started THEN teardowns + 1 ELSE teardowns
        /\ UNCHANGED <<acquisition, frameRequested>>
        /\ (started /\ ~connected[userMediaStream]
                    /\ track[userMediaStream] = "stopped")
              => UNCHANGED platform]_vars

\* C4, its case: the teardown block has run twice on a disposed session
C4_Witness == disposed /\ started /\ teardowns = 2 /\ ~thrown

\* C5: after stop() has returned, no further chunk is appended to buffers:
\* buffers holds the chunks the last stop() saw.
C5_NoAppendAfterStop ==
    returned # << >> => Len(buffers) = Len(returned[1].levels)

\* C6: while the session records and is not disposed every chunk callback
\* appends its chunk at the end of buffers, buffers is the sequence of the
\* chunks delivered since startRecording in the order of delivery, and no
\* step removes, replaces or reorders an element of buffers.
C6_BuffersAreTheDeliveredChunks ==
    /\ [](~disposed => buffers = delivered)
    /\ [][\A i \in Stream, chunk \in DriverChunk :
            (recording /\ ~disposed /\ audioprocess(i, chunk)) =>
                buffers' = Append(buffers, chunk)]_vars
    /\ [][/\ Len(buffers') >= Len(buffers)
          /\ SubSeq(buffers', 1, Len(buffers)) = buffers]_vars

\* C6, its case: two different chunks were retained, in this order
C6_Witness ==
    /\ recording
    /\ ~disposed
    /\ Len(buffers) = 2
    /\ buffers[1][1] = 1
    /\ buffers[2][1] = 0

(***************************************************************************)
(* Properties of stop() (checked under SpecStop, where buffers is the      *)
(* capture the last stop() was applied to).                                *)
(***************************************************************************)
\* stop() has returned
Stopped == returned # << >>

\* the value the last stop() returned
Result == returned[1]

totalChunks == Len(buffers)

\* a chunk whose samples are all 0, and its contrary
Silent(chunk) == \A j \in 1..Len(chunk) : chunk[j] = 0
Loud(chunk) == ~Silent(chunk)

\* exactly the chunk at the 1-based index k is loud
SingleLoudChunk(k) ==
    /\ k \in 1..totalChunks
    /\ \A j \in 1..totalChunks : Loud(buffers[j]) <=> j = k

\* the 10 chunks of which exactly chunks 4 to 6 are loud
TenChunksFourToSixLoud ==
    /\ totalChunks = 10
    /\ \A j \in 1..10 : Loud(buffers[j]) <=> j \in 4..6

AllSilent == \A j \in 1..totalChunks : Silent(buffers[j])

\* C7: with exactly one loud chunk, at index k, among silent ones stop()
\* finds first = last = k and returns trimStart = max(2, k - 2) / total and
\* trimEnd = min(total - 2, k + 2) / total; with 10 chunks of which chunks 4
\* to 6 are loud it finds first = 4 and last = 6 and returns 2/10 and 8/10.
C7_SingleLoudChunk ==
    Stopped =>
        /\ \A k \in 1..totalChunks :
             SingleLoudChunk(k) =>
                /\ Result.firstChunkAboveThreshold = k
                /\ Result.lastChunkAboveThreshold = k
                /\ Same(Result.trimStart,
                        Quot(IF k - 2 > 2 THEN k - 2 ELSE 2, totalChunks))
                /\ Same(Result.trimEnd,
                        Quot(IF k + 2 < totalChunks - 2
                             THEN k + 2 ELSE totalChunks - 2, totalChunks))
        /\ TenChunksFourToSixLoud =>
                /\ Result.firstChunkAboveThreshold = 4
                /\ Result.lastChunkAboveThreshold = 6
                /\ Same(Result.trimStart, Quot(2, 10))
                /\ Same(Result.trimEnd, Quot(8, 10))

\* C7, its case: stop() has returned for the 10 chunks with 4 to 6 loud
C7_Witness == Stopped /\ TenChunksFourToSixLoud

\* C8 as stated: for an all-silent capture stop() takes every chunk as above
\* the threshold: first is 1 and last is the number of chunks.
C8_AllSilentAllAbove ==
    (Stopped /\ AllSilent) =>
        /\ Result.firstChunkAboveThreshold = 1
        /\ Result.lastChunkAboveThreshold = totalChunks

\* C8 as amended: for an all-silent capture (every level 0, threshold 0)
\* stop() takes no chunk as above the threshold: first and last both stay
\* null, and it returns trimStart = 2 / total and trimEnd =
\* min(total - 2, 2) / total.
C8_AllSilentNoneAbove ==
    (Stopped /\ AllSilent) =>
        /\ Result.firstChunkAboveThreshold = null
        /\ Result.lastChunkAboveThreshold = null
        /\ Result.trimStart = Quot(2, totalChunks)
        /\ Result.trimEnd =
             Quot(IF totalChunks - 2 < 2 THEN totalChunks - 2 ELSE 2,
                  totalChunks)

\* C8, its case: stop() has returned for an all-silent capture of 5 chunks
C8_Witness == Stopped /\ AllSilent /\ totalChunks = 5

\* C9 as stated: for every non-empty capture trimStart and trimEnd are both
\* in [0, 1].
C9_TrimInUnitInterval ==
    (Stopped /\ totalChunks >= 1) =>
        /\ InUnitInterval(Result.trimStart)
        /\ InUnitInterval(Result.trimEnd)

\* C9 as amended: for every capture of at least 2 chunks trimStart and
\* trimEnd are both in [0, 1]; for a capture of one chunk stop() returns
\* trimStart = 2 and trimEnd = -1.
C9_TrimInUnitIntervalFromTwoChunks ==
    Stopped =>
        /\ totalChunks >= 2 =>
                /\ InUnitInterval(Result.trimStart)
                /\ InUnitInterval(Result.trimEnd)
        /\ totalChunks = 1 =>
                /\ Result.trimStart = Quot(2, 1)
                /\ Result.trimEnd = Quot(-1, 1)

\* C9, its case: stop() has returned for a capture whose last chunk is above
\* the threshold, so that last + 2 exceeds the number of chunks
C9_Witness ==
    /\ Stopped
    /\ totalChunks >= 2
    /\ Result.lastChunkAboveThreshold = totalChunks

\* samples cut into consecutive pieces of n
Split(samples, n) ==
    [i \in 1..(Len(samples) \div n) |->
        [j \in 1..n |-> samples[(i - 1) * n + j]]]

\* C10: the samples buffer stop() returns has length totalChunks *
\* chunkLength, and cutting it into consecutive pieces of chunkLength gives
\* buffers back, in order.
C10_SamplesRoundTrip ==
    Stopped =>
        /\ Len(Result.samples) = totalChunks * bufferLength
        /\ Split(Result.samples, bufferLength) = buffers

\* C10, its case: stop() has returned for two different chunks of unequal
\* samples
C10_Witness ==
    /\ Stopped
    /\ totalChunks = 2
    /\ buffers[1] # buffers[2]
    /\ buffers[1][1] # buffers[1][2]
    /\ buffers[2][1] # buffers[2][2]

(***************************************************************************)
(* Further properties of the life-cycle (checked under Spec).              *)
(***************************************************************************)
\* the acquisitions whose success invoked onStarted
Notified == {i \in Stream :
                acquisition[i] \in {"notifying", "attached", "abandoned"}}

\* the acquisitions whose failure invoked onError
Failed == {i \in Stream : acquisition[i] = "failed"}

\* C11: the acquisition of one startListening() on a session that is not
\* disposed results in exactly one notification: a success invokes onStarted
\* once and no onError, a failure invokes onError once and no onStarted, a
\* resolved acquisition never resolves again, and so the invocations of
\* each callback are as many as the acquisitions that ended that way.
C11_OneNotificationPerAcquisition ==
    /\ [][\A i \in Stream :
            /\ (~disposed /\ onSuccess(i)) =>
                    /\ calls'.onStarted = calls.onStarted + 1
                    /\ calls'.onError = calls.onError
            /\ (~disposed /\ onFailure(i)) =>
                    /\ calls'.onError = calls.onError + 1
                    /\ calls'.onStarted = calls.onStarted
            /\ acquisition[i] \notin {"none", "pending"} =>
                    acquisition'[i] \notin {"none", "pending"}]_vars
    /\ [](/\ calls.onStarted = Cardinality(Notified)
          /\ calls.onError = Cardinality(Failed))

\* C11, its case: on a session that is not disposed one acquisition has
\* succeeded and another has failed
C11_Witness ==
    /\ ~disposed
    /\ acquisition[1] = "attached"
    /\ acquisition[2] = "failed"
    /\ calls = [onStarted |-> 1, onError |-> 1]

\* C12: while an attached session is not disposed its loudness loop runs:
\* a frame is requested, and every frame tick invokes onUpdate and requests
\* the next frame, whatever the recording flag is and whether or not stop()
\* has been called.
C12_LoopRunsUntilDisposed ==
    /\ [](\A i \in Stream :
            (acquisition[i] = "attached" /\ ~disposed) => frameRequested[i])
    /\ [][\A i \in Stream :
            (~disposed /\ update(i)) =>
                /\ notified' = "onUpdate"
                /\ frameRequested'[i]]_vars

\* C12, its case: a frame tick has invoked onUpdate on a session that is not
\* recording and whose stop() has been called
C12_Witness ==
    /\ ~disposed
    /\ ~recording
    /\ returned # << >>
    /\ notified = "onUpdate"
    /\ \E i \in Stream : acquisition[i] = "attached" /\ frameRequested[i]

\* C13: once dispose() has been called and every pending acquisition has
\* resolved, no stream handed to the session has a live track or a
\* connected processing graph.
C13_DisposalReleasesTheDevice ==
    (/\ disposed
     /\ pc = "idle"
     /\ \A i \in Stream : acquisition[i] # "pending")
        => \A i \in Stream : track[i] # "live" /\ ~connected[i]

\* C14: a chunk callback changes buffers only when recording is true and
\* disposed is false as it fires, and buffers is empty as long as
\* startRecording() has not been called.
C14_OnlyRecordingRetains ==
    /\ [][\A i \in Stream, chunk \in DriverChunk :
            (audioprocess(i, chunk) /\ ~(recording /\ ~disposed)) =>
                buffers' = buffers]_vars
    /\ [](~recording => buffers = << >>)

\* C14, its case: a chunk was retained, the session was disposed, and the
\* chunk callback that fired after that left buffers as it was
C14_Witness ==
    /\ recording
    /\ disposed
    /\ Len(buffers) = 1
    /\ Len(delivered) = 2

\* C15: stop() only reads the session: it changes none of buffers, started,
\* recording and disposed, no reference to the stream or a node, no
\* connection, track, handler or requested frame.
C15_StopOnlyReads == [][stop => UNCHANGED <<session, storage, platform>>]_vars

\* C15, its case: stop() has returned on a recording session whose graph is
\* still connected, with its handler, its loop and its track live
C15_Witness ==
    /\ returned # << >>
    /\ started
    /\ recording
    /\ ~disposed
    /\ Len(buffers) = 1
    /\ userMediaStream # null
    /\ connected[userMediaStream]
    /\ onaudioprocess[userMediaStream]
    /\ frameRequested[userMediaStream]
    /\ track[userMediaStream] = "live"

\* C16: each retained chunk is a copy: when the driver fills its buffer
\* again, every chunk already in buffers keeps its samples.
C16_RetainedChunksKeepTheirSamples ==
    /\ [][\A k \in 1..Len(buffers) :
            k <= Len(buffers') /\ buffers'[k] = buffers[k]]_vars
    /\ [](\A k \in 1..Len(buffers) : storage[k] = null)

\* C16, its case: the one driver buffer of the session delivered a loud
\* chunk, which was retained, and then a silent one
C16_Witness ==
    /\ acquisition[1] = "attached"
    /\ acquisition[2] = "none"
    /\ Len(buffers) = 2
    /\ buffers[1][1] = 1
    /\ buffers[2][1] = 0

\* C17: the session records only after an acquisition has succeeded:
\* recording = TRUE implies started = TRUE.
C17_RecordingImpliesStarted == recording => started

\* C18: no onUpdate is invoked and no chunk is appended on a session whose
\* onStarted has not been invoked: onStarted comes before the first onUpdate
\* and before the first chunk of buffers.
C18_OnStartedComesFirst ==
    /\ [](notified = "onUpdate" => calls.onStarted >= 1)
    /\ [](buffers # << >> => calls.onStarted >= 1)
    /\ [](\A i \in Stream :
            (frameRequested[i] \/ onaudioprocess[i]) => i \in Notified)
    /\ [][(calls.onStarted = 0) =>
            (notified' # "onUpdate" /\ buffers' = << >>)]_vars

\* C18, its case: after the one onStarted a chunk was appended and a frame
\* tick invoked onUpdate
C18_Witness ==
    /\ calls.onStarted = 1
    /\ buffers # << >>
    /\ notified = "onUpdate"

(***************************************************************************)
(* Further properties of stop() (checked under SpecStop).                  *)
(***************************************************************************)
\* p <= q for two finite quotients
AtMost(p, q) == p.den > 0 /\ q.den > 0 /\ p.num * q.den <= q.num * p.den

\* C19: for a non-empty capture, whatever its levels, stop() returns
\* trimStart <= trimEnd when the capture has at least 4 chunks, and
\* trimStart > trimEnd when it has 1, 2 or 3 chunks.
C19_OrderedFromFourChunks ==
    (Stopped /\ totalChunks >= 1) =>
        (AtMost(Result.trimStart, Result.trimEnd) <=> totalChunks >= 4)

\* C19, its case: stop() has returned for 4 chunks of which only the last
\* is above the threshold, where trimStart = trimEnd = 2/4
C19_Witness ==
    /\ Stopped
    /\ totalChunks = 4
    /\ Result.firstChunkAboveThreshold = 4
    /\ Result.trimStart = Result.trimEnd

\* the level of chunk k, and the chunks no other chunk is louder than
Level(k) == calculateRMS(buffers[k])
Loudest == {k \in 1..totalChunks :
                \A j \in 1..totalChunks : ~Greater(Level(j), Level(k))}

\* the chunks whose level exceeds an eighth of the greatest level
Exceeding == {k \in 1..totalChunks :
                \E m \in Loudest : Greater(Level(k), DivideBy8(Level(m)))}

\* C20: for a non-empty capture with a chunk of non-zero level the scan of
\* stop() leaves first as the smallest and last as the largest 1-based index
\* whose level exceeds maxRMS / 8, with 1 <= first <= k <= last <=
\* totalChunks for every loudest chunk k; first or last is null only when
\* every level is 0.
C20_ScanFindsFirstAndLast ==
    Stopped =>
        /\ ~AllSilent =>
                /\ Result.firstChunkAboveThreshold \in Exceeding
                /\ Result.lastChunkAboveThreshold \in Exceeding
                /\ \A k \in Exceeding :
                        /\ Result.firstChunkAboveThreshold <= k
                        /\ k <= Result.lastChunkAboveThreshold
                /\ \A k \in Loudest :
                        /\ 1 <= Result.firstChunkAboveThreshold
                        /\ Result.firstChunkAboveThreshold <= k
                        /\ k <= Result.lastChunkAboveThreshold
                        /\ Result.lastChunkAboveThreshold <= totalChunks
        /\ (\/ Result.firstChunkAboveThreshold = null
            \/ Result.lastChunkAboveThreshold = null) => AllSilent

\* C20, its case: stop() has returned for a capture whose first and last
\* chunks are not silent and yet below the threshold, around three loudest
C20_Witness ==
    /\ Stopped
    /\ totalChunks = 5
    /\ Loud(buffers[1])
    /\ Loud(buffers[5])
    /\ Result.firstChunkAboveThreshold = 2
    /\ Result.lastChunkAboveThreshold = 4
    /\ Loudest = {2, 3, 4}

=============================================================================
